---- MODULE Spec2Model ----
(***************************************************************************)
(* Model of the tusc server (src/internal/server.go): the start-up code of *)
(* Server(), which composes the file store, optionally installs the        *)
(* limitedstore quota decorator and derives the per-upload maximum size    *)
(* handed to the tus handler, and the listing handler homepage(), which    *)
(* rebuilds the index of uploads from the '<id>.info' sidecar files.       *)
(*                                                                         *)
(* Strings are sequences of byte values, so that Go's slicing, len() and   *)
(* byte-wise '<' are computed rather than assumed.                         *)
(***************************************************************************)
EXTENDS Integers, Sequences, FiniteSets, TLC

VARIABLES
  pc,             \* position of Server(): "start", "serving", "exited"
  conf,           \* ServerConf: maxSize, storeSize and the two endpoints
  composer,       \* tusd.StoreComposer: which store answers Core / Terminater
  handlerMaxSize, \* tusd.Config.MaxSize handed to tusd.NewHandler
  dir,            \* names of the entries of conf.uploadDir
  sidecars,       \* content of each '<id>.info' file, by upload number
  nextId,         \* number of uploads created so far
  lastCreate,     \* outcome of the most recent upload creation
  lpc,            \* position of the listing request: "idle", "loop", "done"
  scan,           \* result of ioutil.ReadDir for the request in progress
  idx,            \* loop position in scan (1-based)
  infos,          \* tusd.FileInfo values collected so far, in scan order
  resolved,       \* identifiers GetInfo was called with during this request
  failedOn,       \* directory entry that ended the request early, or <<>>
  resp            \* response of the listing request: the status line, the records
                  \* given to the template and the part of them that was written

vars == <<pc, conf, composer, handlerMaxSize, dir, sidecars, nextId,
          lastCreate, lpc, scan, idx, infos, resolved, failedOn, resp>>

\* ---------------------------------------------------------------- bounds
MaxUploads == 3
MaxConfSize == 2

\* ------------------------------------------------------- strings as bytes
\* ".info"
ext == <<46, 105, 110, 102, 111>>

\* ".bin"
binExt == <<46, 98, 105, 110>>

\* "a.txt", "b.txt", "c.txt"
FileNames == { <<c, 46, 116, 120, 116>> : c \in 97..99 }

\* upload identifiers "u1", "u2", ...
IdOf(n) == <<117, 48 + n>>

\* entries that do not belong to any upload: ".info" and "tmp"
ForeignNames == { ext, <<116, 109, 112>> }

\* Go's s < t on strings: byte-wise lexicographic order
RECURSIVE StrLess(_, _)
StrLess(s, t) ==
  IF t = <<>> THEN FALSE
  ELSE IF s = <<>> THEN TRUE
  ELSE IF Head(s) # Head(t) THEN Head(s) < Head(t)
  ELSE StrLess(Tail(s), Tail(t))

\* Go's s[lo:] and s[:hi]; a bound outside 0..len(s) is a run-time panic
SlicePanics(s, lo) == lo < 0 \/ lo > Len(s)
SliceFrom(s, lo) == SubSeq(s, lo + 1, Len(s))
SliceTo(s, hi) == SubSeq(s, 1, hi)

\* ------------------------------------------------------------ start-up
ConfSizes == (0 - 1)..(MaxConfSize + 1)

\* --base-path: the default "/files/", and "/" which is also the listing endpoint
BasePaths == {"/files/", "/"}

\* the configurations parsed from the command line; listingEndpoint is always "/"
Confs(maxSizes, storeSizes) ==
  [maxSize : maxSizes, storeSize : storeSizes,
   listingEndpoint : {"/"}, uploadEndpoint : BasePaths]

\* "if conf.listingEndpoint != conf.uploadEndpoint": homepage is registered
ListingRegistered(c) == c.listingEndpoint # c.uploadEndpoint

\* "if conf.storeSize > 0": the quota decorator is wanted
QuotaInstalled_strict(c) == c.storeSize >= 0
QuotaInstalled(c) == c.storeSize > 0

\* "if conf.maxSize > conf.storeSize || conf.maxSize == 0 { conf.maxSize = conf.storeSize }"
ClampMaxSize_nozero(maxSize, storeSize) ==
  IF maxSize > storeSize THEN storeSize ELSE maxSize
ClampMaxSize(maxSize, storeSize) ==
  IF maxSize > storeSize \/ maxSize = 0 THEN storeSize ELSE maxSize

\* conf.maxSize as it stands when tusd.NewHandler is called
EffectiveMaxSize(c) ==
  IF QuotaInstalled(c) THEN ClampMaxSize(c.maxSize, c.storeSize) ELSE c.maxSize

\* the composer after store.UseIn and, when wanted, limitedstore.New(...).UseIn
ComposedStore(c) ==
  IF QuotaInstalled(c)
    THEN [Core |-> "limitedstore", Terminater |-> "limitedstore"]
    ELSE [Core |-> "filestore", Terminater |-> "filestore"]

NoComposer == [Core |-> "none", Terminater |-> "none"]
NoCreate == [via |-> "none", result |-> "none"]
NoResponse == [status |-> "none", listing |-> <<>>, body |-> <<>>]
AbsentFile == [state |-> "absent", ID |-> <<>>, MetaData |-> {}]

\* the state when Server() is entered, for a set of parsed configurations
InitWith(confs) ==
  /\ pc = "start"
  /\ conf \in confs
  /\ composer = NoComposer
  /\ handlerMaxSize = 0
  /\ dir \in SUBSET ForeignNames
  /\ sidecars = [n \in 1..MaxUploads |-> AbsentFile]
  /\ nextId = 0
  /\ lastCreate = NoCreate
  /\ lpc = "idle"
  /\ scan = <<>>
  /\ idx = 1
  /\ infos = <<>>
  /\ resolved = <<>>
  /\ failedOn = <<>>
  /\ resp = NoResponse

\* the defaults (--max-size 0, --store-size 0) and one positive store size
Init == InitWith(Confs({0}, {0, MaxConfSize}))

\* every combination of --max-size and --store-size around zero
InitServer == InitWith(Confs(ConfSizes, ConfSizes))

\* Server(): MkdirAll, compose the stores, build the handler, listen
Server ==
  /\ pc = "start"
  /\ \E mkdirOk \in BOOLEAN, listenOk \in BOOLEAN :
       IF ~mkdirOk
         THEN /\ pc' = "exited"
              /\ UNCHANGED <<composer, handlerMaxSize>>
         ELSE /\ composer' = ComposedStore(conf)
              /\ handlerMaxSize' = EffectiveMaxSize(conf)
              /\ pc' = IF listenOk THEN "serving" ELSE "exited"
  /\ UNCHANGED <<conf, dir, sidecars, nextId, lastCreate,
                 lpc, scan, idx, infos, resolved, failedOn, resp>>

\* --------------------------------------------------- the upload endpoint
InfoName(n) == IdOf(n) \o ext
BinName(n) == IdOf(n) \o binExt

\* metadata of a new upload: a "filename" entry, or none
MetaDatas == { {<<"filename", f>>} : f \in FileNames } \cup { {} }

\* an upload creation dispatched to composer.Core
NewUpload ==
  /\ pc = "serving"
  /\ nextId < MaxUploads
  /\ \E md \in MetaDatas, admitted \in BOOLEAN :
       /\ admitted \/ composer.Core = "limitedstore"
       /\ IF admitted
            THEN /\ nextId' = nextId + 1
                 /\ dir' = dir \cup {InfoName(nextId + 1), BinName(nextId + 1)}
                 /\ sidecars' = [sidecars EXCEPT ![nextId + 1] =
                        [state |-> "ok", ID |-> IdOf(nextId + 1), MetaData |-> md]]
                 /\ lastCreate' = [via |-> composer.Core, result |-> "created"]
            ELSE /\ lastCreate' = [via |-> composer.Core, result |-> "QuotaExceeded"]
                 /\ UNCHANGED <<nextId, dir, sidecars>>
  /\ UNCHANGED <<pc, conf, composer, handlerMaxSize,
                 lpc, scan, idx, infos, resolved, failedOn, resp>>

\* an upload termination dispatched to composer.Terminater
Terminate ==
  /\ pc = "serving"
  /\ \E n \in 1..nextId :
       /\ InfoName(n) \in dir
       /\ dir' = dir \ {InfoName(n), BinName(n)}
       /\ sidecars' = [sidecars EXCEPT ![n] = AbsentFile]
  /\ UNCHANGED <<pc, conf, composer, handlerMaxSize, nextId, lastCreate,
                 lpc, scan, idx, infos, resolved, failedOn, resp>>

\* a sidecar becomes unreadable (truncated or damaged on disk)
CorruptSidecar ==
  /\ pc = "serving"
  /\ \E n \in 1..nextId :
       /\ sidecars[n].state = "ok"
       /\ sidecars' = [sidecars EXCEPT ![n].state = "corrupt"]
  /\ UNCHANGED <<pc, conf, composer, handlerMaxSize, dir, nextId, lastCreate,
                 lpc, scan, idx, infos, resolved, failedOn, resp>>

\* --------------------------------------------------- the listing endpoint
\* ioutil.ReadDir returns the entries sorted by file name
RECURSIVE SortedNames(_)
SortedNames(S) ==
  IF S = {} THEN <<>>
  ELSE LET m == CHOOSE x \in S : \A y \in S \ {x} : StrLess(x, y)
       IN <<m>> \o SortedNames(S \ {m})

\* store.GetInfo(id): read and decode '<id>.info'
GetInfoFails(id) ==
  \A n \in 1..MaxUploads :
    IdOf(n) = id => (InfoName(n) \notin dir \/ sidecars[n].state # "ok")
GetInfo(id) ==
  LET n == CHOOSE k \in 1..MaxUploads : IdOf(k) = id
  IN [ID |-> sidecars[n].ID, MetaData |-> sidecars[n].MetaData]

\* Go's m[k] on a map[string]string: "" when the key is missing
MetaGet(md, k) ==
  IF \E p \in md : p[1] = k
    THEN (CHOOSE p \in md : p[1] = k)[2]
    ELSE <<>>

\* the comparison function given to sort.Slice
Less_desc(x, y) == StrLess(MetaGet(y.MetaData, "filename"), MetaGet(x.MetaData, "filename"))
Less(x, y) == StrLess(MetaGet(x.MetaData, "filename"), MetaGet(y.MetaData, "filename"))

\* sort.Slice on a short slice: insertion sort, each element moved left
\* while it is less than its left neighbour
RECURSIVE InsertLeft(_, _)
InsertLeft(s, x) ==
  IF s # <<>> /\ Less(x, s[Len(s)])
    THEN InsertLeft(SubSeq(s, 1, Len(s) - 1), x) \o <<s[Len(s)]>>
    ELSE s \o <<x>>

RECURSIVE SortSlice(_)
SortSlice(s) ==
  IF s = <<>> THEN <<>>
  ELSE InsertLeft(SortSlice(SubSeq(s, 1, Len(s) - 1)), s[Len(s)])

\* the "listing" template: one link per record, .ID and the filename
Rendered(s) ==
  [i \in 1..Len(s) |-> [ID |-> s[i].ID, text |-> MetaGet(s[i].MetaData, "filename")]]

\* the test "lenOfID > 0 && filename[lenOfID:] == ext"
IsSidecar(filename, lenOfID) == lenOfID > 0 /\ SliceFrom(filename, lenOfID) = ext

\* a request reaches homepage, when it is registered: ioutil.ReadDir(store.Path)
HomepageReadDir ==
  /\ pc = "serving"
  /\ ListingRegistered(conf)
  /\ lpc \in {"idle", "done"}
  /\ \E readOk \in BOOLEAN :
       IF readOk
         THEN /\ scan' = SortedNames(dir)
              /\ lpc' = "loop"
              /\ resp' = NoResponse
         ELSE /\ scan' = <<>>
              /\ lpc' = "done"
              /\ resp' = [status |-> "500", listing |-> <<>>, body |-> <<>>]
  /\ idx' = 1
  /\ infos' = <<>>
  /\ resolved' = <<>>
  /\ failedOn' = <<>>
  /\ UNCHANGED <<pc, conf, composer, handlerMaxSize, dir, sidecars, nextId, lastCreate>>

\* one iteration of "for _, f := range fileInfos"
HomepageCollect ==
  /\ lpc = "loop"
  /\ idx <= Len(scan)
  /\ LET filename == scan[idx]
         lenOfID == Len(filename) - Len(ext)
     IN IF SlicePanics(filename, lenOfID)
          \* fmt.Println(..., filename[lenOfID:]) panics; net/http drops the connection
          THEN /\ resp' = [status |-> "panic", listing |-> <<>>, body |-> <<>>]
               /\ failedOn' = filename
               /\ lpc' = "done"
               /\ UNCHANGED <<idx, infos, resolved>>
          ELSE IF IsSidecar(filename, lenOfID)
            THEN /\ resolved' = Append(resolved, SliceTo(filename, lenOfID))
                 /\ IF GetInfoFails(SliceTo(filename, lenOfID))
                      THEN /\ resp' = [status |-> "500", listing |-> <<>>, body |-> <<>>]
                           /\ failedOn' = filename
                           /\ lpc' = "done"
                           /\ UNCHANGED <<idx, infos>>
                      ELSE /\ infos' = Append(infos, GetInfo(SliceTo(filename, lenOfID)))
                           /\ idx' = idx + 1
                           /\ UNCHANGED <<resp, failedOn, lpc>>
            ELSE /\ idx' = idx + 1
                 /\ UNCHANGED <<infos, resolved, resp, failedOn, lpc>>
  /\ UNCHANGED <<pc, conf, composer, handlerMaxSize, dir, sidecars, nextId,
                 lastCreate, scan>>

\* after the loop: sort.Slice and t.ExecuteTemplate.  The template writes
\* straight to the ResponseWriter, so the first Write commits status 200; the
\* only error ExecuteTemplate can return is a write error, after which the
\* response is the part written so far and http.Error(w, "", 500) can no
\* longer change the status.
HomepageRender ==
  /\ lpc = "loop"
  /\ idx > Len(scan)
  /\ LET page == Rendered(SortSlice(infos))
     IN \E written \in 0..Len(page) :
          resp' = [status |-> "200", listing |-> page, body |-> SubSeq(page, 1, written)]
  /\ lpc' = "done"
  /\ UNCHANGED <<pc, conf, composer, handlerMaxSize, dir, sidecars, nextId,
                 lastCreate, scan, idx, infos, resolved, failedOn>>

Next ==
  \/ Server
  \/ NewUpload
  \/ Terminate
  \/ CorruptSidecar
  \/ HomepageReadDir
  \/ HomepageCollect
  \/ HomepageRender

Spec == Init /\ [][Next]_vars

\* start-up and the upload endpoint alone, over all configurations
NextServer ==
  \/ Server
  \/ NewUpload
  \/ Terminate

SpecServer == InitServer /\ [][NextServer]_vars

\* ------------------------------------------------------------ properties
\* a name of the form <non-empty identifier>.info
HasInfoSuffix(name) ==
  /\ Len(name) > Len(ext)
  /\ SubSeq(name, Len(name) - Len(ext) + 1, Len(name)) = ext

\* the identifier of a sidecar name
Stem(name) == SubSeq(name, 1, Len(name) - Len(ext))

\* the identifiers of the sidecar names among the first k entries of a scan
RECURSIVE StemsOf(_, _)
StemsOf(sc, k) ==
  IF k = 0 THEN <<>>
  ELSE IF HasInfoSuffix(sc[k])
    THEN Append(StemsOf(sc, k - 1), Stem(sc[k]))
    ELSE StemsOf(sc, k - 1)

\* number of positions of s that hold e
Count(s, e) == Cardinality({i \in 1..Len(s) : s[i] = e})

IsPermutation(s, t) ==
  /\ Len(s) = Len(t)
  /\ \A i \in 1..Len(s) : Count(s, s[i]) = Count(t, s[i])

\* C6: a finished listing request answers either with a 500 and no listing,
\* or with a listing that has exactly one entry for every '<id>.info'
\* sidecar seen in the directory scan.
C6_ListingNeverOmits ==
  lpc = "done" =>
    \/ resp.status = "500" /\ resp.body = <<>>
    \/ /\ resp.status = "200"
       /\ Len(resp.body) = Len(StemsOf(scan, Len(scan)))
       /\ \A k \in 1..Len(scan) :
            HasInfoSuffix(scan[k]) => Count([i \in 1..Len(resp.body) |-> resp.body[i].ID], Stem(scan[k])) = 1

\* C7: the sequence the handler gives to the template is a permutation of
\* the collected records and is in ascending byte-wise order of the
\* "filename" metadata value; what is written of it is written in that order.
C7_ListingSorted ==
  resp.status = "200" =>
    /\ IsPermutation(resp.listing, Rendered(infos))
    /\ \A i \in 1..Len(resp.listing) : \A j \in 1..Len(resp.listing) :
         i < j => ~StrLess(resp.listing[j].text, resp.listing[i].text)
    /\ resp.body = SubSeq(resp.listing, 1, Len(resp.body))

\* b.txt, a.txt, c.txt collected in that order are rendered a.txt, b.txt, c.txt
C7_Witness ==
  /\ resp.status = "200"
  /\ [i \in 1..Len(infos) |-> MetaGet(infos[i].MetaData, "filename")]
       = << <<98, 46, 116, 120, 116>>, <<97, 46, 116, 120, 116>>, <<99, 46, 116, 120, 116>> >>
  /\ [i \in 1..Len(resp.body) |-> resp.body[i].text]
       = << <<97, 46, 116, 120, 116>>, <<98, 46, 116, 120, 116>>, <<99, 46, 116, 120, 116>> >>

\* C8: the quota decorator is registered in the composer exactly when the
\* store-size ceiling is strictly positive; with a ceiling of zero or less
\* no creation goes through the decorator or is refused with QuotaExceeded.
C8_QuotaIffPositiveCeiling ==
  /\ composer # NoComposer =>
       /\ (composer.Core = "limitedstore") <=> (conf.storeSize > 0)
       /\ (composer.Terminater = "limitedstore") <=> (conf.storeSize > 0)
  /\ conf.storeSize <= 0 =>
       /\ lastCreate.via # "limitedstore"
       /\ lastCreate.result # "QuotaExceeded"

\* an upload was created while the ceiling is zero, straight in the file store
C8_Witness ==
  /\ pc = "serving"
  /\ conf.storeSize = 0
  /\ composer.Core = "filestore"
  /\ lastCreate = [via |-> "filestore", result |-> "created"]

\* C9: with a positive store size the maximum size handed to the handler is
\* never 0 and never above the store size; otherwise it is the configured
\* maximum size, unchanged.
C9_MaxSizeFitsStore ==
  composer # NoComposer =>
    IF conf.storeSize > 0
      THEN handlerMaxSize # 0 /\ handlerMaxSize <= conf.storeSize
      ELSE handlerMaxSize = conf.maxSize

\* an unlimited maximum size (0) was replaced by a positive store size
C9_Witness ==
  /\ pc = "serving"
  /\ conf.storeSize > 0
  /\ conf.maxSize = 0
  /\ handlerMaxSize = conf.storeSize

\* C10: GetInfo is called for exactly the entries named <identifier>.info,
\* with the name minus the suffix, and no other entry makes the request
\* fail or abort.
C10_OnlySidecarsResolved ==
  /\ lpc = "loop" => resolved = StemsOf(scan, idx - 1)
  /\ failedOn # <<>> => HasInfoSuffix(failedOn)
====
